---- MODULE Spec2Model ----
(***************************************************************************)
(* The fixed-size thread pool of src/src/lib.rs: ThreadPool::new,          *)
(* ThreadPool::execute, Drop for ThreadPool, and the loop each Worker      *)
(* thread runs over the shared, mutex-protected mpsc receiver.             *)
(***************************************************************************)
EXTENDS Naturals, Sequences, FiniteSets, TLC

\* Largest size argument given to ThreadPool::new (0 is the panicking case).
MaxSize == 2
\* Most jobs submitted through execute in one behaviour.
MaxJobs == 3

VARIABLES
    pstate,     \* position of the owner: Unconstructed, Constructing, Panicked,
                \* Active, Draining (inside drop), Stopped (drop returned)
    size,       \* the size argument of ThreadPool::new
    chan,       \* TRUE once mpsc::channel() has been called
    workers,    \* Vec<Worker>: sequence of [id, thread], thread "Some"/"None"
    wstate,     \* thread of worker id: Waiting, Running, Terminated
    wexit,      \* why the thread ended: none, terminate, disconnected, poisoned, panic
    guard,      \* set of worker ids holding a MutexGuard of the receiver
    poisoned,   \* the Mutex is poisoned (a thread panicked holding the guard)
    queue,      \* messages in the channel, oldest first
    jkind,      \* per job: "ok" returns, "fault" panics
    jstatus,    \* per job: unsubmitted, queued, running, done, faulted,
                \* rejected (its send failed), dropped (with the channel)
    runs,       \* per job: how many times a worker called it
    ranBy,      \* per job: set of worker ids that called it
    current,    \* per worker id: the job it is running, 0 if none
    counter,    \* the shared counter the "ok" jobs increment
    nSubmitted, \* number of execute calls so far
    termSent,   \* number of send(Terminate) calls made by drop
    termOk,     \* number of those sends that succeeded
    termSeen,   \* per worker id: Terminate messages it dequeued
    joinIdx,    \* index of the next element of the join loop of drop
    joinOrder,  \* ids whose join has been attempted, in order
    joinRes     \* per attempted join: "ok" or "err"

vars == <<pstate, size, chan, workers, wstate, wexit, guard, poisoned, queue,
          jkind, jstatus, runs, ranBy, current, counter, nSubmitted,
          termSent, termOk, termSeen, joinIdx, joinOrder, joinRes>>

Jobs == 1..MaxJobs

Ids == DOMAIN wstate

\* enum Message { NewJob(Job), Terminate }
NewJob(j) == [type |-> "NewJob", job |-> j]
Terminate == [type |-> "Terminate", job |-> 0]

SenderDroppedOnDrop == chan /\ pstate \notin {"Draining", "Stopped"}

\* The pool's Sender lives from mpsc::channel() until the pool's fields are
\* dropped, which is after Drop::drop has returned.
SenderAlive == chan /\ pstate # "Stopped"

\* The Receiver lives in an Arc: one clone is the local of new, one is moved
\* into every worker thread's closure and dropped when that thread ends.
ReceiverAlive ==
    chan /\ (pstate = "Constructing" \/ \E i \in Ids : wstate[i] # "Terminated")

\* The thread of worker i is the last holder of the Receiver.
LastHolder(i) ==
    pstate # "Constructing" /\ \A k \in Ids \ {i} : wstate[k] = "Terminated"

\* Dropping the Receiver drops every message still in the channel.
DropQueued(q, js) ==
    [j \in Jobs |->
        IF \E k \in 1..Len(q) : q[k] = NewJob(j) THEN "dropped" ELSE js[j]]

Init ==
    /\ pstate = "Unconstructed"
    /\ size = 0
    /\ chan = FALSE
    /\ workers = <<>>
    /\ wstate = <<>>
    /\ wexit = <<>>
    /\ guard = {}
    /\ poisoned = FALSE
    /\ queue = <<>>
    /\ jkind = [j \in Jobs |-> "ok"]
    /\ jstatus = [j \in Jobs |-> "unsubmitted"]
    /\ runs = [j \in Jobs |-> 0]
    /\ ranBy = [j \in Jobs |-> {}]
    /\ current = <<>>
    /\ counter = 0
    /\ nSubmitted = 0
    /\ termSent = 0
    /\ termOk = 0
    /\ termSeen = <<>>
    /\ joinIdx = 1
    /\ joinOrder = <<>>
    /\ joinRes = <<>>

SizeOkNonNegative(s) == s >= 0

\* assert!(size > 0)
SizeOk(s) == s > 0

\* ThreadPool::new up to the spawn loop: the assertion, then the channel.
New(s) ==
    /\ pstate = "Unconstructed"
    /\ size' = s
    /\ IF SizeOk(s)
          THEN pstate' = "Constructing" /\ chan' = TRUE
          ELSE pstate' = "Panicked" /\ chan' = chan
    /\ UNCHANGED <<workers, wstate, wexit, guard, poisoned, queue, jkind,
                   jstatus, runs, ranBy, current, counter, nSubmitted,
                   termSent, termOk, termSeen, joinIdx, joinOrder, joinRes>>

SpawnCountInclusive == size + 1

\* Number of iterations of the spawn loop "for id in 0..size".
SpawnCount == size

FirstIdOne == 0 + 1

\* First id of the spawn loop "for id in 0..size".
FirstId == 0

\* One iteration of the spawn loop: Worker::new(id, ..) spawns the thread,
\* which starts at the top of its loop; after the last one new returns.
Spawn ==
    /\ pstate = "Constructing"
    /\ Len(workers) < SpawnCount
    /\ LET id == FirstId + Len(workers) IN
        /\ workers' = Append(workers, [id |-> id, thread |-> "Some"])
        /\ wstate' = wstate @@ (id :> "Waiting")
        /\ wexit' = wexit @@ (id :> "none")
        /\ current' = current @@ (id :> 0)
        /\ termSeen' = termSeen @@ (id :> 0)
    /\ pstate' = IF Len(workers) + 1 = SpawnCount THEN "Active" ELSE "Constructing"
    /\ UNCHANGED <<size, chan, guard, poisoned, queue, jkind, jstatus, runs,
                   ranBy, counter, nSubmitted, termSent, termOk, joinIdx,
                   joinOrder, joinRes>>

SendBlocksWhenFull(q) == Len(q) >= 1

\* mpsc::channel() is the asynchronous channel: its buffer is unbounded and a
\* send never waits for room or for a receiver.
SendBlocks(q) == FALSE

\* mpsc::Sender::send: Err, and nothing queued, when the Receiver is gone.
SendResult(q, m) == IF ReceiverAlive THEN Append(q, m) ELSE q

OnSendErrorPanic(ps) == "Panicked"

\* "if let Err(e) = ...send(..) { eprintln!(..) }": the error is printed and
\* the caller carries on from where it was.
OnSendError(ps) == ps

SubmitAllowedWhileDropping == pstate \in {"Active", "Draining"}

\* execute borrows the pool (&self) and drop takes it exclusively (&mut self):
\* execute can only be called on a constructed pool that is not being dropped.
SubmitAllowed == pstate = "Active"

\* ThreadPool::execute(f): box the closure, send NewJob, swallow a send error.
Submit(k) ==
    /\ SubmitAllowed
    /\ nSubmitted < MaxJobs
    /\ ~SendBlocks(queue)
    /\ LET j == nSubmitted + 1 IN
        /\ nSubmitted' = j
        /\ jkind' = [jkind EXCEPT ![j] = k]
        /\ queue' = SendResult(queue, NewJob(j))
        /\ jstatus' = [jstatus EXCEPT
                          ![j] = IF ReceiverAlive THEN "queued" ELSE "rejected"]
    /\ pstate' = IF ReceiverAlive THEN pstate ELSE OnSendError(pstate)
    /\ UNCHANGED <<size, chan, workers, wstate, wexit, guard, poisoned, runs,
                   ranBy, current, counter, termSent, termOk, termSeen,
                   joinIdx, joinOrder, joinRes>>

LockFreeAlways == TRUE

\* Mutex::lock returns only when no other thread holds a guard.
LockFree == guard = {}

\* Worker loop, receiver.lock(): blocks while another worker holds the guard;
\* Err on a poisoned mutex, and the thread breaks out of the loop.
WorkerLock(i) ==
    /\ i \in Ids
    /\ wstate[i] = "Waiting"
    /\ LockFree
    /\ IF poisoned
          THEN /\ wstate' = [wstate EXCEPT ![i] = "Terminated"]
               /\ wexit' = [wexit EXCEPT ![i] = "poisoned"]
               /\ guard' = guard
               /\ IF LastHolder(i)
                     THEN queue' = <<>> /\ jstatus' = DropQueued(queue, jstatus)
                     ELSE UNCHANGED <<queue, jstatus>>
          ELSE /\ guard' = guard \cup {i}
               /\ UNCHANGED <<wstate, wexit, queue, jstatus>>
    /\ UNCHANGED <<pstate, size, chan, workers, poisoned, jkind, runs, ranBy,
                   current, counter, nSubmitted, termSent, termOk, termSeen,
                   joinIdx, joinOrder, joinRes>>

\* What recv leaves in the channel after handing out the head message.
AfterRecv(q) == Tail(q)

GuardKeptWhileRunning(g, i) == g

\* The guard is a temporary of "let message = match receiver.lock() {..};":
\* it is dropped at the end of that statement, before the message is matched.
GuardAfterRecv(g, i) == g \ {i}

AfterTerminateLoops == "Waiting"

\* The Terminate arm ends with "break": the thread leaves the loop and ends.
AfterTerminate == "Terminated"

AfterJobExit == "Terminated"

\* The thread body is a "loop": when job() returns the worker goes back to
\* the top of the loop and waits for the next message.
AfterJob == "Waiting"

\* Worker loop, guard.recv() and the match on the message: blocks on an empty
\* channel with a live Sender; the guard is released at the end of the let.
WorkerRecv(i) ==
    /\ i \in Ids
    /\ wstate[i] = "Waiting"
    /\ i \in guard
    /\ guard' = GuardAfterRecv(guard, i)
    /\ IF queue # <<>>
          THEN LET msg == Head(queue)
                   rest == AfterRecv(queue) IN
               IF msg.type = "NewJob"
                  THEN /\ wstate' = [wstate EXCEPT ![i] = "Running"]
                       /\ current' = [current EXCEPT ![i] = msg.job]
                       /\ runs' = [runs EXCEPT ![msg.job] = @ + 1]
                       /\ ranBy' = [ranBy EXCEPT ![msg.job] = @ \cup {i}]
                       /\ jstatus' = [jstatus EXCEPT ![msg.job] = "running"]
                       /\ queue' = rest
                       /\ UNCHANGED <<wexit, termSeen>>
                  ELSE /\ wstate' = [wstate EXCEPT ![i] = AfterTerminate]
                       /\ wexit' = [wexit EXCEPT ![i] = "terminate"]
                       /\ termSeen' = [termSeen EXCEPT ![i] = @ + 1]
                       /\ IF LastHolder(i)
                             THEN /\ queue' = <<>>
                                  /\ jstatus' = DropQueued(rest, jstatus)
                             ELSE /\ queue' = rest
                                  /\ jstatus' = jstatus
                       /\ UNCHANGED <<current, runs, ranBy>>
          ELSE /\ ~SenderAlive
               /\ wstate' = [wstate EXCEPT ![i] = "Terminated"]
               /\ wexit' = [wexit EXCEPT ![i] = "disconnected"]
               /\ UNCHANGED <<queue, jstatus, current, runs, ranBy, termSeen>>
    /\ UNCHANGED <<pstate, size, chan, workers, poisoned, jkind, counter,
                   nSubmitted, termSent, termOk, joinIdx, joinOrder, joinRes>>

\* Worker loop, job(): an "ok" job returns and the loop goes round again; a
\* panicking job unwinds the thread, which ends without catching it.
JobFinish(i) ==
    /\ i \in Ids
    /\ wstate[i] = "Running"
    /\ LET j == current[i] IN
        IF jkind[j] = "ok"
           THEN /\ wstate' = [wstate EXCEPT ![i] = AfterJob]
                /\ jstatus' = [jstatus EXCEPT ![j] = "done"]
                /\ counter' = counter + 1
                /\ UNCHANGED <<wexit, guard, poisoned, queue>>
           ELSE /\ wstate' = [wstate EXCEPT ![i] = "Terminated"]
                /\ wexit' = [wexit EXCEPT ![i] = "panic"]
                /\ poisoned' = (poisoned \/ i \in guard)
                /\ guard' = guard \ {i}
                /\ counter' = counter
                /\ IF LastHolder(i)
                      THEN /\ queue' = <<>>
                           /\ jstatus' = [DropQueued(queue, jstatus)
                                             EXCEPT ![j] = "faulted"]
                      ELSE /\ queue' = queue
                           /\ jstatus' = [jstatus EXCEPT ![j] = "faulted"]
    /\ current' = [current EXCEPT ![i] = 0]
    /\ UNCHANGED <<pstate, size, chan, workers, jkind, runs, ranBy,
                   nSubmitted, termSent, termOk, termSeen, joinIdx, joinOrder,
                   joinRes>>

\* The pool goes out of scope: Drop::drop is entered.
DropBegin ==
    /\ pstate = "Active"
    /\ pstate' = "Draining"
    /\ UNCHANGED <<size, chan, workers, wstate, wexit, guard, poisoned, queue,
                   jkind, jstatus, runs, ranBy, current, counter, nSubmitted,
                   termSent, termOk, termSeen, joinIdx, joinOrder, joinRes>>

TerminateCountShort == Len(workers) - 1

\* Number of iterations of the first loop of drop, "for _ in &self.workers".
TerminateCount == Len(workers)

\* drop, first loop: one send(Terminate), a send error is printed and ignored.
SendTerminate ==
    /\ pstate = "Draining"
    /\ termSent < TerminateCount
    /\ ~SendBlocks(queue)
    /\ termSent' = termSent + 1
    /\ termOk' = IF ReceiverAlive THEN termOk + 1 ELSE termOk
    /\ queue' = SendResult(queue, Terminate)
    /\ pstate' = IF ReceiverAlive THEN pstate ELSE OnSendError(pstate)
    /\ UNCHANGED <<size, chan, workers, wstate, wexit, guard, poisoned,
                   jkind, jstatus, runs, ranBy, current, counter, nSubmitted,
                   termSeen, joinIdx, joinOrder, joinRes>>

JoinMayStartEarly == TRUE

\* The join loop of drop starts once the Terminate loop has finished.
JoinMayStart == termSent = TerminateCount

OnJoinErrorUnwrap(ps) == "Panicked"

\* "if let Err(e) = thread.join() { eprintln!(..) }": the join error is
\* printed and the loop goes on.
OnJoinError(ps) == ps

TakeHandleLeavesSome(t) == t

\* Option::take moves the handle out and leaves None in the worker.
TakeHandle(t) == "None"

\* drop, second loop: take the handle of the next worker and join it, which
\* blocks until that thread has ended; Err when the thread panicked.  After the
\* last element drop returns and the pool's fields are dropped.
JoinWorker ==
    /\ pstate = "Draining"
    /\ JoinMayStart
    /\ joinIdx <= Len(workers)
    /\ LET w == workers[joinIdx] IN
        /\ wstate[w.id] = "Terminated"
        /\ workers' = [workers EXCEPT ![joinIdx].thread = TakeHandle(@)]
        /\ joinOrder' = Append(joinOrder, w.id)
        /\ joinRes' = Append(joinRes,
                             IF w.thread = "None" THEN "skipped"
                             ELSE IF wexit[w.id] = "panic" THEN "err" ELSE "ok")
    /\ joinIdx' = joinIdx + 1
    /\ LET after == IF joinIdx = Len(workers) THEN "Stopped" ELSE "Draining" IN
        pstate' = IF workers[joinIdx].thread = "Some"
                     /\ wexit[workers[joinIdx].id] = "panic"
                     THEN OnJoinError(after)
                     ELSE after
    /\ UNCHANGED <<size, chan, wstate, wexit, guard, poisoned, queue, jkind,
                   jstatus, runs, ranBy, current, counter, nSubmitted,
                   termSent, termOk, termSeen>>

Next ==
    \/ \E s \in 0..MaxSize : New(s)
    \/ Spawn
    \/ \E k \in {"ok", "fault"} : Submit(k)
    \/ \E i \in 0..(MaxSize - 1) : WorkerLock(i)
    \/ \E i \in 0..(MaxSize - 1) : WorkerRecv(i)
    \/ \E i \in 0..(MaxSize - 1) : JobFinish(i)
    \/ DropBegin
    \/ SendTerminate
    \/ JoinWorker

Spec == Init /\ [][Next]_vars

TypeOK ==
    /\ pstate \in {"Unconstructed", "Constructing", "Panicked", "Active",
                   "Draining", "Stopped"}
    /\ size \in 0..MaxSize
    /\ \A i \in Ids : wstate[i] \in {"Waiting", "Running", "Terminated"}
    /\ guard \subseteq Ids
    /\ \A j \in Jobs : jstatus[j] \in {"unsubmitted", "queued", "running",
                                       "done", "faulted", "rejected",
                                       "dropped"}

\* The scheduler runs every thread that can take a step: the worker threads
\* and, once drop has been entered, the thread running drop.
Fairness ==
    /\ WF_vars(Spawn)
    /\ WF_vars(SendTerminate)
    /\ WF_vars(JoinWorker)
    /\ \A i \in 0..(MaxSize - 1) :
          WF_vars(WorkerLock(i)) /\ WF_vars(WorkerRecv(i)) /\ WF_vars(JobFinish(i))

FairSpec == Spec /\ Fairness

\* As FairSpec, but a job may run for as long as it likes: no fairness on
\* JobFinish (the handler of bin/main.rs sleeps in a job).
StallSpec ==
    /\ Spec
    /\ WF_vars(Spawn)
    /\ \A i \in 0..(MaxSize - 1) :
          WF_vars(WorkerLock(i)) /\ WF_vars(WorkerRecv(i))

\* The pool is never dropped and every job increments the shared counter.
ActiveNext ==
    \/ \E s \in 0..MaxSize : New(s)
    \/ Spawn
    \/ Submit("ok")
    \/ \E i \in 0..(MaxSize - 1) : WorkerLock(i)
    \/ \E i \in 0..(MaxSize - 1) : WorkerRecv(i)
    \/ \E i \in 0..(MaxSize - 1) : JobFinish(i)

ActiveSpec ==
    /\ Init
    /\ [][ActiveNext]_vars
    /\ WF_vars(Spawn)
    /\ \A i \in 0..(MaxSize - 1) :
          WF_vars(WorkerLock(i)) /\ WF_vars(WorkerRecv(i)) /\ WF_vars(JobFinish(i))

Submitted == 1..nSubmitted

Constructed == pstate \in {"Active", "Draining", "Stopped"}

InChannel(j) == \E k \in 1..Len(queue) : queue[k] = NewJob(j)

(***************************************************************************)
(* C1: no job is called more than once or by two different workers, and    *)
(* while the pool is Active (no shutdown in progress) every submitted job  *)
(* that no worker has dequeued yet is still in the channel.                *)
(***************************************************************************)
C1_NoDuplicateNoLoss ==
    /\ \A j \in Jobs : runs[j] <= 1 /\ Cardinality(ranBy[j]) <= 1
    /\ pstate = "Active" =>
          \A j \in Submitted : runs[j] = 0 => InChannel(j)

(***************************************************************************)
(* C2: when drop has returned, every job submitted before it has been      *)
(* called exactly once and has finished, and no worker is running a job.   *)
(***************************************************************************)
C2_AllJobsCompleteAtStop ==
    pstate = "Stopped" =>
        /\ \A j \in Submitted : runs[j] = 1 /\ jstatus[j] \in {"done", "faulted"}
        /\ \A i \in Ids : wstate[i] # "Running"

(***************************************************************************)
(* C3: with the pool Active and N counter-incrementing jobs submitted, the *)
(* counter never exceeds the number submitted, every queued job is         *)
(* eventually done, and the counter eventually stays at exactly N.         *)
(***************************************************************************)
C3_CounterReachesN ==
    /\ [](counter <= nSubmitted)
    /\ \A j \in Jobs : (jstatus[j] = "queued") ~> (jstatus[j] = "done")
    /\ <>[](counter = nSubmitted)

C3_Witness ==
    /\ pstate = "Active"
    /\ nSubmitted = MaxJobs
    /\ counter = MaxJobs
    /\ size = MaxSize

(***************************************************************************)
(* C4: once drop has been entered it returns: the pool reaches Stopped     *)
(* with every worker thread ended, whatever the workers were doing and     *)
(* whatever was queued.                                                    *)
(***************************************************************************)
C4_ShutdownTerminates ==
    (pstate = "Draining") ~>
        (pstate = "Stopped" /\ \A i \in Ids : wstate[i] = "Terminated")

C4_Witness ==
    /\ pstate = "Stopped"
    /\ size = MaxSize
    /\ \A i \in Ids : wstate[i] = "Terminated"
    /\ \E j \in Jobs : jstatus[j] = "done"

(***************************************************************************)
(* C5: drop calls send(Terminate) once per worker, never more; no join is  *)
(* attempted before all of these sends have been made; joins are attempted *)
(* one by one in the order of the workers vector.                          *)
(***************************************************************************)
C5_TerminatesThenJoinsInOrder ==
    /\ termSent <= Len(workers)
    /\ joinOrder # <<>> => termSent = Len(workers)
    /\ pstate = "Stopped" => termSent = Len(workers)
    /\ Len(joinOrder) <= Len(workers)
    /\ \A k \in 1..Len(joinOrder) : joinOrder[k] = workers[k].id

C5_Witness ==
    /\ pstate = "Stopped"
    /\ size = MaxSize
    /\ termSent = MaxSize
    /\ Len(joinOrder) = MaxSize

(***************************************************************************)
(* C6: after teardown every worker has dequeued exactly one Terminate.     *)
(***************************************************************************)
C6_OneTerminatePerWorker ==
    pstate = "Stopped" => \A i \in Ids : termSeen[i] = 1

(***************************************************************************)
(* C7: for size > 0, new returns a pool of exactly size workers with ids   *)
(* 0..size-1, each with its thread handle and its thread Waiting, and the  *)
(* number of workers never changes afterwards.                             *)
(***************************************************************************)
C7_ConstructYieldsSizeWorkers ==
    /\ [](Constructed =>
            /\ size > 0
            /\ Len(workers) = size
            /\ \A k \in 1..Len(workers) : workers[k].id = k - 1
            /\ Ids = 0..(size - 1))
    /\ [][pstate # "Active" /\ pstate' = "Active" =>
            \A k \in 1..Len(workers') :
                /\ workers'[k].thread = "Some"
                /\ wstate'[workers'[k].id] = "Waiting"]_vars
    /\ [][Constructed => Len(workers') = Len(workers)]_vars

C7_Witness ==
    /\ pstate = "Active"
    /\ size = MaxSize
    /\ Len(workers) = MaxSize
    /\ nSubmitted = 0

C9_SubmitNeverBlocks ==
    /\ [](pstate = "Active" /\ nSubmitted < MaxJobs =>
            ENABLED (\E k \in {"ok", "fault"} : Submit(k)))
    /\ [][nSubmitted' # nSubmitted =>
            /\ queue' = IF ReceiverAlive
                           THEN Append(queue, NewJob(nSubmitted'))
                           ELSE queue
            /\ UNCHANGED <<workers, wstate, wexit, guard, current, runs,
                           ranBy, counter>>
            /\ \A j \in Jobs \ {nSubmitted'} : jstatus'[j] = jstatus[j]]_vars

C9_Witness ==
    /\ pstate = "Active"
    /\ Ids # {}
    /\ \A i \in Ids : wstate[i] = "Running"
    /\ Len(queue) >= 1
    /\ queue[Len(queue)] = NewJob(nSubmitted)

(***************************************************************************)
(* C10: an execute whose send fails returns normally, its job is never     *)
(* run, and workers and queue are unchanged; a failed send(Terminate) in   *)
(* drop is followed by the remaining sends and by all the joins.           *)
(***************************************************************************)
C10_SendFailureSwallowed ==
    /\ [][nSubmitted' # nSubmitted /\ ~ReceiverAlive =>
            /\ pstate' = "Active"
            /\ jstatus'[nSubmitted'] = "rejected"
            /\ UNCHANGED <<queue, workers, wstate, wexit, guard, current,
                           runs>>]_vars
    /\ [](\A j \in Jobs : jstatus[j] = "rejected" => runs[j] = 0)
    /\ [][\A j \in Jobs : jstatus[j] = "rejected" =>
                              jstatus'[j] = "rejected"]_vars
    /\ [][termSent' # termSent /\ ~ReceiverAlive =>
            pstate' = "Draining" /\ termSent' = termSent + 1]_vars
    /\ (pstate = "Draining" /\ termOk < termSent) ~>
          (/\ pstate = "Stopped"
           /\ termSent = Len(workers)
           /\ Len(joinOrder) = Len(workers))

C10_Witness ==
    /\ pstate = "Stopped"
    /\ \E j \in Jobs : jstatus[j] = "rejected"
    /\ termOk < termSent
    /\ termSent = Len(workers)
    /\ Len(joinOrder) = Len(workers)

JoinedErr == {k \in 1..Len(joinRes) : joinRes[k] = "err"}

LiveCount == Cardinality({i \in Ids : wstate[i] # "Terminated"})

RunningCount == Cardinality({i \in Ids : wstate[i] = "Running"})

\* Messages handed out by recv so far (each job and each worker counts once).
Dequeued ==
    Cardinality({j \in Jobs : runs[j] > 0})
        + Cardinality({i \in Ids : termSeen[i] > 0})

(***************************************************************************)
(* C11: a join that returns Err (the thread panicked) leaves drop running: *)
(* drop still attempts every remaining join and returns, and every worker  *)
(* has had its Terminate sent and its join attempted when it does.         *)
(***************************************************************************)
C11_JoinFailureDoesNotAbort ==
    /\ [][Len(joinRes') > Len(joinRes) /\ joinRes'[Len(joinRes')] = "err" =>
            /\ pstate' = IF Len(joinOrder') = Len(workers)
                            THEN "Stopped" ELSE "Draining"
            /\ joinIdx' = joinIdx + 1]_vars
    /\ [](JoinedErr # {} => pstate \in {"Draining", "Stopped"}
                            /\ termSent = Len(workers))
    /\ (pstate = "Draining" /\ JoinedErr # {}) ~>
          (/\ pstate = "Stopped"
           /\ Len(joinOrder) = Len(workers)
           /\ \A k \in 1..Len(workers) : workers[k].thread = "None")

C11_Witness ==
    /\ pstate = "Stopped"
    /\ size >= 2
    /\ joinRes[1] = "err"
    /\ joinRes[Len(workers)] = "ok"
    /\ Len(joinOrder) = Len(workers)

(***************************************************************************)
(* C12: at most one worker holds the receive lock, only a Waiting worker   *)
(* holds it (never one that is Running a job), and the holder gives it up  *)
(* in the very step in which its recv returns.                             *)
(***************************************************************************)
C12_LockOnlyAroundRecv ==
    /\ [](Cardinality(guard) <= 1)
    /\ [](\A i \in guard : wstate[i] = "Waiting")
    /\ [][\A i \in guard : Dequeued' > Dequeued => i \notin guard']_vars

C12_Witness ==
    /\ \E i \in Ids : wstate[i] = "Running"
    /\ \E k \in Ids : guard = {k} /\ wstate[k] = "Waiting"

(***************************************************************************)
(* C13: a Running worker dequeues nothing until its job has finished, a    *)
(* Terminate is only ever dequeued by a Waiting worker, and a worker that  *)
(* has dequeued Terminate is Terminated for good: it dequeues and runs     *)
(* nothing more.                                                           *)
(***************************************************************************)
C13_TerminateOnlyBetweenJobs ==
    [][\A i \in Ids :
          /\ wstate[i] = "Running" =>
                /\ termSeen'[i] = termSeen[i]
                /\ \/ wstate'[i] = "Running" /\ current'[i] = current[i]
                   \/ jstatus'[current[i]] \in {"done", "faulted"}
          /\ termSeen'[i] > termSeen[i] =>
                wstate[i] = "Waiting" /\ current[i] = 0
          /\ termSeen[i] >= 1 =>
                /\ wstate[i] = "Terminated"
                /\ wstate'[i] = "Terminated"
                /\ termSeen'[i] = termSeen[i]
                /\ current'[i] = 0
                /\ \A j \in Jobs : i \in ranBy'[j] => i \in ranBy[j]]_vars

C13_Witness ==
    /\ pstate = "Draining"
    /\ queue # <<>>
    /\ Head(queue) = Terminate
    /\ \E i \in Ids : wstate[i] = "Running"

(***************************************************************************)
(* C14: a worker that was Running a job is Waiting again when the job is   *)
(* over, whether it returned or faulted; a worker thread ends only by      *)
(* Terminate or by a receive/lock failure.                                 *)
(***************************************************************************)
C14_WorkerSurvivesJob ==
    [][\A i \in Ids :
          /\ (wstate[i] = "Running" /\ wstate'[i] # "Running") =>
                wstate'[i] = "Waiting"
          /\ (wstate[i] # "Terminated" /\ wstate'[i] = "Terminated") =>
                wexit'[i] \in {"terminate", "disconnected", "poisoned"}]_vars

(***************************************************************************)
(* C15: a worker thread that has ended stays ended and no thread is added  *)
(* after construction: the number of live threads never grows once new has *)
(* returned and never exceeds the pool size.                               *)
(***************************************************************************)
C15_WorkersNeverReplaced ==
    /\ [](LiveCount <= size)
    /\ [](Cardinality(Ids) <= size)
    /\ [][Constructed => LiveCount' <= LiveCount /\ (Ids' = Ids)]_vars
    /\ [][\A i \in Ids : wstate[i] = "Terminated" =>
                            wstate'[i] = "Terminated"]_vars

C15_Witness ==
    /\ pstate = "Active"
    /\ size >= 2
    /\ LiveCount < size
    /\ \E i \in Ids : wexit[i] = "panic"
    /\ \E i \in Ids : wstate[i] # "Terminated"

(***************************************************************************)
(* C16: the pool only moves Active -> Draining -> Stopped; Stopped is      *)
(* entered only with every Terminate sent and every join attempted; once   *)
(* destruction has begun nothing is submitted and no worker is spawned.    *)
(***************************************************************************)
C16_PoolOnlyMovesForward ==
    /\ [][Constructed /\ pstate' # pstate =>
            \/ pstate = "Active" /\ pstate' = "Draining"
            \/ pstate = "Draining" /\ pstate' = "Stopped"]_vars
    /\ [](pstate = "Stopped" =>
            termSent = Len(workers) /\ Len(joinOrder) = Len(workers))
    /\ [](pstate = "Active" => termSent = 0 /\ joinOrder = <<>>)
    /\ [][(pstate \in {"Draining", "Stopped"}) =>
            /\ nSubmitted' = nSubmitted
            /\ Len(workers') = Len(workers)
            /\ (Ids' = Ids)]_vars

C16_Witness ==
    /\ pstate = "Stopped"
    /\ size >= 2
    /\ nSubmitted >= 1
    /\ termSent = Len(workers)

(***************************************************************************)
(* C17: every worker has one thread, spawned once; its handle is there     *)
(* until its join and gone from then on; no join finds the handle already  *)
(* taken, no worker is joined twice, and all are joined when drop returns. *)
(***************************************************************************)
C17_SpawnedOnceJoinedOnce ==
    /\ Cardinality(Ids) = Len(workers)
    /\ \A k \in 1..Len(workers) :
          /\ workers[k].id \in Ids
          /\ workers[k].thread = "None" <=> k <= Len(joinOrder)
    /\ \A a, b \in 1..Len(joinOrder) : joinOrder[a] = joinOrder[b] => a = b
    /\ \A k \in 1..Len(joinRes) : joinRes[k] # "skipped"
    /\ pstate = "Stopped" =>
          /\ {joinOrder[k] : k \in 1..Len(joinOrder)} = Ids
          /\ \A k \in 1..Len(workers) : workers[k].thread = "None"

C17_Witness ==
    /\ pstate = "Stopped"
    /\ size >= 2
    /\ Len(joinOrder) = Len(workers)
    /\ \A k \in 1..Len(workers) : workers[k].thread = "None"

(***************************************************************************)
(* C19: no worker ever takes a defensive exit: the mutex is never          *)
(* poisoned, no recv finds the channel disconnected, and a thread that has *)
(* ended did so by dequeuing Terminate or in a job's panic.                *)
(***************************************************************************)
C19_DefensiveExitsUnreachable ==
    /\ ~poisoned
    /\ \A i \in Ids :
          /\ wexit[i] \in {"none", "terminate", "panic"}
          /\ wstate[i] = "Terminated" <=> wexit[i] # "none"
    /\ (\E i \in Ids : wstate[i] # "Terminated") => SenderAlive

C19_Witness ==
    /\ pstate = "Stopped"
    /\ \E i \in Ids : wexit[i] = "terminate"
    /\ \E i \in Ids : wexit[i] = "panic"

(***************************************************************************)
(* C20: with a worker Running a job that need never finish, a message      *)
(* waiting in the channel is eventually dequeued as long as some other     *)
(* worker is Waiting; the number of jobs Running at once never exceeds the *)
(* pool size (and reaches it).                                             *)
(***************************************************************************)
C20_LongJobDoesNotStall ==
    /\ [](RunningCount <= size)
    /\ \A n \in 0..(MaxJobs + MaxSize) :
          (/\ queue # <<>>
           /\ Dequeued = n
           /\ \E i \in Ids : wstate[i] = "Running"
           /\ \E k \in Ids : wstate[k] = "Waiting")
              ~> (Dequeued > n)

C20_Witness ==
    /\ size >= 2
    /\ RunningCount = size
    /\ queue # <<>>
====
